---------------------------- MODULE Spec2Model ----------------------------
(***************************************************************************)
(* Model of migrate_print_to_template.py: the PrintMigrator session        *)
(* (migration_count, file_count, errors), its line rewriter migrate_line   *)
(* with the four regular expressions, migrate_file, migrate_directory and  *)
(* main with its exit status.                                              *)
(*                                                                         *)
(* A string is a sequence of one-character strings.  A file's content is   *)
(* one such sequence; readlines and ''.join convert between a content and   *)
(* its lines.                                                              *)
(***************************************************************************)
EXTENDS Integers, Sequences, FiniteSets

(***************************************************************************)
(* Characters and character classes of the regular expressions.            *)
(***************************************************************************)
NL == "\n"

PrintCall == <<"p", "r", "i", "n", "t", "(">>

\* \s restricted to the whitespace characters of the model's alphabet
Whitespace == {" ", NL, "\t"}

\* [a-z_]
IdStart == {"a", "b", "c", "d", "e", "f", "g", "h", "i", "j", "k", "l", "m",
            "n", "o", "p", "q", "r", "s", "t", "u", "v", "w", "x", "y", "z",
            "_"}

\* [a-z0-9_]
IdChar == IdStart \cup {"0", "1", "2", "3", "4", "5", "6", "7", "8", "9"}

\* the list ['+', '-', '*', '/', '(', ')'] of rule 4
OpChars == {"+", "-", "*", "/", "(", ")"}

Min(S) == CHOOSE x \in S : \A y \in S : x <= y

\* s[i..] starts with the literal t
StartsWithAt(s, i, t) ==
    /\ i >= 1
    /\ i + Len(t) - 1 <= Len(s)
    /\ \A k \in 1..Len(t) : s[i + k - 1] = t[k]

\* t in s (Python's substring test)
Contains(s, t) == \E i \in 1..Len(s) : StartsWithAt(s, i, t)

\* '.' matches any character except a newline
NoNewline(s, a, b) == \A k \in a..b : s[k] # NL

(***************************************************************************)
(* The four patterns.  A match is a record: the matched span from..to and  *)
(* the span gfrom..gto of group 1 (empty when gto = gfrom - 1).            *)
(***************************************************************************)
NoMatch == [from |-> 0, to |-> 0, gfrom |-> 0, gto |-> 0]

\* pattern1 = r'print\(\[(.*?)\]\)' tried at position i: the lazy .*? stops
\* at the first "])" after "print([" on the same line
Match1At(s, i) ==
    IF ~StartsWithAt(s, i, PrintCall \o <<"[">>) THEN NoMatch
    ELSE LET cand == {j \in (i + 7)..(Len(s) - 1) :
                        /\ s[j] = "]"
                        /\ s[j + 1] = ")"
                        /\ NoNewline(s, i + 7, j - 1)}
         IN  IF cand = {} THEN NoMatch
             ELSE [from |-> i, to |-> Min(cand) + 1,
                   gfrom |-> i + 7, gto |-> Min(cand) - 1]

\* (?:[^"\\]|\\.)* from position j: the position after the greedy repetition.
\* The two alternatives exclude each other and neither starts with a quote,
\* so giving back an item never lets the following '"' match.
RECURSIVE StringBodyEnd(_, _)
StringBodyEnd(s, j) ==
    IF j > Len(s) THEN j
    ELSE IF s[j] \notin {"\"", "\\"} THEN StringBodyEnd(s, j + 1)
    ELSE IF s[j] = "\\" /\ j + 1 <= Len(s) /\ s[j + 1] # NL
         THEN StringBodyEnd(s, j + 2)
    ELSE j

\* pattern2 = r'print\("((?:[^"\\]|\\.)*)"\)' tried at position i
Match2At(s, i) ==
    IF ~StartsWithAt(s, i, PrintCall \o <<"\"">>) THEN NoMatch
    ELSE LET e == StringBodyEnd(s, i + 7)
         IN  IF StartsWithAt(s, e, <<"\"", ")">>)
             THEN [from |-> i, to |-> e + 1, gfrom |-> i + 7, gto |-> e - 1]
             ELSE NoMatch

\* [a-z0-9_]* from position j: the position after the greedy repetition
RECURSIVE IdentEnd(_, _)
IdentEnd(s, j) ==
    IF j <= Len(s) /\ s[j] \in IdChar THEN IdentEnd(s, j + 1) ELSE j

\* variant: r'\(([a-z_][a-z0-9_]*)\)', the pattern without its print prefix
Match3AtNoPrefix(s, i) ==
    IF ~(StartsWithAt(s, i, <<"(">>) /\ i + 1 <= Len(s) /\ s[i + 1] \in IdStart)
    THEN NoMatch
    ELSE LET e == IdentEnd(s, i + 2)
         IN  IF e <= Len(s) /\ s[e] = ")"
             THEN [from |-> i, to |-> e, gfrom |-> i + 1, gto |-> e - 1]
             ELSE NoMatch

\* pattern3 = r'print\(([a-z_][a-z0-9_]*)\)' tried at position i
Match3At(s, i) ==
    IF ~(StartsWithAt(s, i, PrintCall) /\ i + 6 <= Len(s) /\ s[i + 6] \in IdStart)
    THEN NoMatch
    ELSE LET e == IdentEnd(s, i + 7)
         IN  IF e <= Len(s) /\ s[e] = ")"
             THEN [from |-> i, to |-> e, gfrom |-> i + 6, gto |-> e - 1]
             ELSE NoMatch

\* variant: pattern4 without its lookahead
LookaheadAlways(s, p) == TRUE

\* the lookahead (?=\s*(?:--|$)) at position p: after some whitespace comes
\* "--" or the end of the string; $ also matches before a final newline
Lookahead(s, p) ==
    \E m \in p..(Len(s) + 1) :
        /\ \A k \in p..(m - 1) : s[k] \in Whitespace
        /\ \/ StartsWithAt(s, m, <<"-", "-">>)
           \/ m = Len(s) + 1
           \/ m = Len(s) /\ s[m] = NL

\* pattern4 = r'print\((.*?)\)(?=\s*(?:--|$))' tried at position i: the lazy
\* .*? stops at the first ")" the lookahead accepts
Match4At(s, i) ==
    IF ~StartsWithAt(s, i, PrintCall) THEN NoMatch
    ELSE LET cand == {j \in (i + 6)..Len(s) :
                        /\ s[j] = ")"
                        /\ NoNewline(s, i + 6, j - 1)
                        /\ Lookahead(s, j + 1)}
         IN  IF cand = {} THEN NoMatch
             ELSE [from |-> i, to |-> Min(cand),
                   gfrom |-> i + 6, gto |-> Min(cand) - 1]

MatchAt(k, s, i) ==
    CASE k = 1 -> Match1At(s, i)
      [] k = 2 -> Match2At(s, i)
      [] k = 3 -> Match3At(s, i)
      [] k = 4 -> Match4At(s, i)

\* re.search(pattern_k, s) from position pos: the leftmost match
SearchFrom(k, s, pos) ==
    LET starts == {i \in pos..Len(s) : MatchAt(k, s, i) # NoMatch}
    IN  IF starts = {} THEN NoMatch ELSE MatchAt(k, s, Min(starts))

Search(k, s) == SearchFrom(k, s, 1)

Group1(s, m) == SubSeq(s, m.gfrom, m.gto)

\* the replacement templates r'[\1]' (rules 1, 3, 4) and r'["\1"]' (rule 2)
Replacement(k, s, m) ==
    IF k = 2 THEN <<"[", "\"">> \o Group1(s, m) \o <<"\"", "]">>
    ELSE <<"[">> \o Group1(s, m) \o <<"]">>

\* re.sub(pattern_k, template, s): every non-overlapping match, left to right
RECURSIVE SubFrom(_, _, _)
SubFrom(k, s, pos) ==
    LET m == SearchFrom(k, s, pos)
    IN  IF m = NoMatch THEN SubSeq(s, pos, Len(s))
        ELSE SubSeq(s, pos, m.from - 1) \o Replacement(k, s, m)
                 \o SubFrom(k, s, m.to + 1)

Sub(k, s) == SubFrom(k, s, 1)

\* str.strip()
RECURSIVE LStrip(_)
LStrip(s) == IF s # <<>> /\ Head(s) \in Whitespace THEN LStrip(Tail(s)) ELSE s

RECURSIVE RStrip(_)
RStrip(s) ==
    IF s # <<>> /\ s[Len(s)] \in Whitespace
    THEN RStrip(SubSeq(s, 1, Len(s) - 1)) ELSE s

Strip(s) == RStrip(LStrip(s))

(***************************************************************************)
(* migrate_line.  The result carries the returned line, the increase of    *)
(* self.migration_count and the diagnostics appended to self.errors.       *)
(***************************************************************************)
ManualReview(filename, line_num, original_line) ==
    [kind |-> "manual_review", file |-> filename, line |-> line_num,
     text |-> Strip(original_line)]

CouldNot(filename, line_num, line) ==
    [kind |-> "could_not", file |-> filename, line |-> line_num,
     text |-> Strip(line)]

\* rules 1-3: 'if re.search(p, line): line = re.sub(p, repl, line)'
SimpleRule(k, line) ==
    IF Search(k, line) # NoMatch THEN Sub(k, line) ELSE line

\* variant: the operator list without the two parentheses
IsComplexNoParens(line, m) ==
    m # NoMatch
        /\ \E c \in {"+", "-", "*", "/"} : Contains(Group1(line, m), <<c>>)

\* the content of rule 4's first match holds one of the operator characters
IsComplex(line, m) ==
    m # NoMatch /\ \E c \in OpChars : Contains(Group1(line, m), <<c>>)

\* rule 4: the first match's content decides; the substitution is global
FallbackRule(line) ==
    IF IsComplex(line, Search(4, line)) THEN Sub(4, line) ELSE line

\* variant: rule 4 without 'self.migration_count += 1'
OutcomeFallbackUncounted(line, line_num, filename, new1, new2, new3, new4) ==
    CASE new1 # line ->
           [line |-> new1, count |-> 1, errors |-> <<>>]
      [] new1 = line /\ new2 # line ->
           [line |-> new2, count |-> 1, errors |-> <<>>]
      [] new1 = line /\ new2 = line /\ new3 # line ->
           [line |-> new3, count |-> 1, errors |-> <<>>]
      [] new1 = line /\ new2 = line /\ new3 = line /\ new4 # line ->
           [line |-> new4, count |-> 0,
            errors |-> <<ManualReview(filename, line_num, line)>>]
      [] OTHER ->
           [line |-> line, count |-> 0,
            errors |-> IF Contains(line, PrintCall)
                       THEN <<CouldNot(filename, line_num, line)>>
                       ELSE <<>>]

\* the rules in order; each returns at once when it changed the line
\* ('if line != original_line'), and line 74 logs what is left
Outcome(line, line_num, filename, new1, new2, new3, new4) ==
    CASE new1 # line ->
           [line |-> new1, count |-> 1, errors |-> <<>>]
      [] new1 = line /\ new2 # line ->
           [line |-> new2, count |-> 1, errors |-> <<>>]
      [] new1 = line /\ new2 = line /\ new3 # line ->
           [line |-> new3, count |-> 1, errors |-> <<>>]
      [] new1 = line /\ new2 = line /\ new3 = line /\ new4 # line ->
           [line |-> new4, count |-> 1,
            errors |-> <<ManualReview(filename, line_num, line)>>]
      [] OTHER ->
           [line |-> line, count |-> 0,
            errors |-> IF Contains(line, PrintCall)
                       THEN <<CouldNot(filename, line_num, line)>>
                       ELSE <<>>]

MigrateLine(line, line_num, filename) ==
    Outcome(line, line_num, filename, SimpleRule(1, line),
            SimpleRule(2, line), SimpleRule(3, line), FallbackRule(line))

(***************************************************************************)
(* migrate_file: readlines, migrate_line over every line, ''.join.         *)
(***************************************************************************)
\* f.readlines(): the content cut after every newline
RECURSIVE ReadLines(_)
ReadLines(content) ==
    IF content = <<>> THEN <<>>
    ELSE LET nls == {i \in 1..Len(content) : content[i] = NL}
         IN  IF nls = {} THEN <<content>>
             ELSE <<SubSeq(content, 1, Min(nls))>>
                      \o ReadLines(SubSeq(content, Min(nls) + 1, Len(content)))

\* ''.join(new_lines)
RECURSIVE Join(_)
Join(lines) == IF lines = <<>> THEN <<>> ELSE Head(lines) \o Join(Tail(lines))

ReadError(filepath) ==
    [kind |-> "read_error", file |-> filepath, line |-> 0, text |-> <<>>]

\* new_line != line
LineChanged(new_line, line) == new_line # line

\* variant: 'changed = new_line != line', the last line decides
IterationLastWins(line, r, rest) ==
    [new_lines |-> <<r.line>> \o rest.new_lines,
     count |-> r.count + rest.count,
     errors |-> r.errors \o rest.errors,
     changed |-> IF rest.new_lines = <<>> THEN LineChanged(r.line, line)
                 ELSE rest.changed]

\* one iteration of 'for i, line in enumerate(lines, 1)': r is what
\* migrate_line returned for the line, rest the result of the later lines
Iteration(line, r, rest) ==
    [new_lines |-> <<r.line>> \o rest.new_lines,
     count |-> r.count + rest.count,
     errors |-> r.errors \o rest.errors,
     changed |-> LineChanged(r.line, line) \/ rest.changed]

\* the loop from index i on
RECURSIVE MigrateLines(_, _, _)
MigrateLines(lines, i, filename) ==
    IF i > Len(lines)
    THEN [new_lines |-> <<>>, count |-> 0, errors |-> <<>>, changed |-> FALSE]
    ELSE Iteration(lines[i], MigrateLine(lines[i], i, filename),
                   MigrateLines(lines, i + 1, filename))

\* 'return changed, ''.join(new_lines)'; lines and new_lines are kept
\* beside the returned pair
Returned(lines, r) ==
    [changed |-> r.changed, new_content |-> Join(r.new_lines),
     count |-> r.count, errors |-> r.errors, read_ok |-> TRUE,
     lines |-> lines, new_lines |-> r.new_lines]

MigrateRead(filepath, lines) ==
    Returned(lines, MigrateLines(lines, 1, filepath))

\* migrate_file(filepath) on a file whose read succeeds (readable) or raises
MigrateFile(filepath, readable, content) ==
    IF readable
    THEN MigrateRead(filepath, ReadLines(content))
    ELSE [changed |-> FALSE, new_content |-> <<>>, count |-> 0,
          errors |-> <<ReadError(filepath)>>, read_ok |-> FALSE,
          lines |-> <<>>, new_lines |-> <<>>]

(***************************************************************************)
(* The file tree the directories are taken from.                           *)
(***************************************************************************)
Files == {"cases/success/1.bst", "cases/failure/2.bst"}

Dirs == {"cases", "cases/success", "cases/failure", "cases/empty", "missing"}

\* directory.exists()
Exists(d) == d # "missing"

\* list(directory.rglob("*.bst"))
RGlob(d) ==
    CASE d = "cases" -> <<"cases/success/1.bst", "cases/failure/2.bst">>
      [] d = "cases/success" -> <<"cases/success/1.bst">>
      [] d = "cases/failure" -> <<"cases/failure/2.bst">>
      [] OTHER -> <<>>

(***************************************************************************)
(* Inputs.                                                                 *)
(***************************************************************************)
MaxRoots == 2
MaxAtoms == 3
MaxBody == 4
MaxTrail == 3

LHi == PrintCall \o <<"\"", "h", "i", "\"", ")">>
LVar == PrintCall \o <<"x", ")">>
LTpl == PrintCall \o <<"[", "y", "]", ")">>
LSum == PrintCall \o <<"a", " ", "+", " ", "b", ")">>
LDot == PrintCall \o <<"x", ".", "y", ")">>
LDone == <<"[", "x", "]">>
LMethod == PrintCall \o <<"f", "o", "o", ".", "b", "a", "r", "(", ")", ")">>
LIndexInCall ==
    PrintCall \o <<"[", "f", "(", "a", "[", "0", "]", ")", "]", ")">>
LTrailing ==
    PrintCall \o <<"a", " ", "+", " ", "b", ")", " ", "+", " ",
                   "f", "o", "o", "(", "c", ")">>

\* contents of a readable file
Contents ==
    { <<>>,
      LDone \o <<NL>>,
      LHi \o <<NL>> \o LVar \o <<NL>> \o LTpl \o <<NL>>,
      LSum \o <<NL>>,
      LDot \o <<NL>>,
      LVar \o <<NL>> \o LDot,
      LDone \o <<NL>> \o LSum }

FileStates ==
    {[readable |-> TRUE, content |-> c] : c \in Contents}
        \cup {[readable |-> FALSE, content |-> <<"?">>]}

\* the sequences of at most n elements of S
SeqsUpTo(S, n) == UNION {[1..k -> S] : k \in 0..n}

Alphabet == {"x", ".", "(", ")", "[", "]", "\"", "\\", "+", "-", " "}

Atoms == {PrintCall} \cup {<<c>> : c \in Alphabet}

\* lines of at most MaxAtoms atoms
AtomLines == {Join(a) : a \in SeqsUpTo(Atoms, MaxAtoms)}

\* print([X]) for X of at most MaxBody characters
BracketLines ==
    {PrintCall \o <<"[">> \o x \o <<"]", ")">> :
        x \in SeqsUpTo({"x", "[", "]", "(", ")"}, MaxBody)}

\* print(E)T: an expression with an operator and code after the call
TrailingLines ==
    {PrintCall \o e \o <<")">> \o t :
        e \in {<<"+">>, <<"x", "+">>, <<"+", "x">>},
        t \in SeqsUpTo({"x", " ", "(", ")", "-"}, MaxTrail)}

LineBodies ==
    AtomLines \cup BracketLines \cup TrailingLines
        \cup {LHi, LVar, LTpl, LSum, LDot, LMethod, LIndexInCall, LTrailing}

\* a line as readlines yields it: a body with or without its newline
Lines == LineBodies \cup {b \o <<NL>> : b \in LineBodies}

(***************************************************************************)
(* State.                                                                  *)
(***************************************************************************)
VARIABLES
    fs,               \* on disk: file -> [readable, content]
    directories,      \* args.directories
    dry_run,          \* args.dry_run
    pc,               \* "main", "files", "report", "exit", "done", "crashed";
                      \* "call", "returned" for a direct call of migrate_line
    dir_idx,          \* main's position in args.directories
    bst_files,        \* the files migrate_directory has still to process
    migration_count,  \* self.migration_count
    file_count,       \* self.file_count
    errors,           \* self.errors
    out,              \* what was printed
    exit_status,      \* the process's exit status, "none" while it runs
    arg_line,         \* the line of a direct call of migrate_line
    ret_line,         \* what that call returned
    fs0,              \* history: the content of every file at the start
    changed_lines,    \* history: the lines returned different from their input
    last              \* history: the latest call of migrate_file

vars == <<fs, directories, dry_run, pc, dir_idx, bst_files, migration_count,
          file_count, errors, out, exit_status, arg_line, ret_line, fs0,
          changed_lines, last>>

NoCall == [file |-> "none"]

\* PrintMigrator.__init__
NewSession ==
    /\ migration_count = 0
    /\ file_count = 0
    /\ errors = <<>>

\* the command line: one or more directories, --dry-run or not
InitMain ==
    /\ fs \in [Files -> FileStates]
    /\ directories \in SeqsUpTo(Dirs, MaxRoots) \ {<<>>}
    /\ dry_run \in BOOLEAN
    /\ pc = "main"
    /\ arg_line = <<>>

\* a direct call of migrate_line on a fresh session
InitCall ==
    /\ fs = [f \in Files |-> [readable |-> TRUE, content |-> <<>>]]
    /\ directories = <<>>
    /\ dry_run = FALSE
    /\ pc = "call"
    /\ arg_line \in Lines

Init ==
    /\ InitMain \/ InitCall
    /\ NewSession
    /\ dir_idx = 1
    /\ bst_files = <<>>
    /\ out = <<>>
    /\ exit_status = "none"
    /\ ret_line = <<>>
    /\ fs0 = fs
    /\ changed_lines = 0
    /\ last = NoCall

(***************************************************************************)
(* What was printed.                                                       *)
(***************************************************************************)
Notice(kind, path) == [kind |-> kind, path |-> path]

Report ==
    [kind |-> "report", files_modified |-> file_count,
     migrated |-> migration_count, warnings |-> errors]

\* variant: only a failed read makes the run fail
ExitCodeHardOnly(errs) ==
    IF \E i \in 1..Len(errs) : errs[i].kind = "read_error" THEN 1 ELSE 0

\* sys.exit(1 if migrator.errors else 0)
ExitCode(errs) == IF errs # <<>> THEN 1 ELSE 0

\* variant: the counter moved under 'if not dry_run'
CountsFileWhenWritten(changed, dry) == changed /\ ~dry

\* 'if changed: self.file_count += 1'
CountsFile(changed, dry) == changed

\* variant: the write not guarded by dry_run
OverwritesAlways(changed, dry) == changed

\* 'if changed: ... if not dry_run:' guards the only write
Overwrites(changed, dry) == changed /\ ~dry

(***************************************************************************)
(* main: the loop over args.directories, with migrate_directory's checks.  *)
(***************************************************************************)
\* 'if not directory.exists()': printed, this root is skipped
DirectoryMissing ==
    /\ pc = "main"
    /\ dir_idx <= Len(directories)
    /\ ~Exists(directories[dir_idx])
    /\ out' = out \o <<Notice("processing", directories[dir_idx]),
                       Notice("missing", directories[dir_idx])>>
    /\ dir_idx' = dir_idx + 1
    /\ UNCHANGED <<fs, directories, dry_run, pc, bst_files, migration_count,
                   file_count, errors, exit_status, arg_line, ret_line, fs0,
                   changed_lines, last>>

\* 'if not bst_files': printed, this root is skipped
NoBstFiles ==
    /\ pc = "main"
    /\ dir_idx <= Len(directories)
    /\ Exists(directories[dir_idx])
    /\ RGlob(directories[dir_idx]) = <<>>
    /\ out' = out \o <<Notice("processing", directories[dir_idx]),
                       Notice("nofiles", directories[dir_idx])>>
    /\ dir_idx' = dir_idx + 1
    /\ UNCHANGED <<fs, directories, dry_run, pc, bst_files, migration_count,
                   file_count, errors, exit_status, arg_line, ret_line, fs0,
                   changed_lines, last>>

\* the files are listed once, before the loop over them starts
EnterDirectory ==
    /\ pc = "main"
    /\ dir_idx <= Len(directories)
    /\ Exists(directories[dir_idx])
    /\ RGlob(directories[dir_idx]) # <<>>
    /\ bst_files' = RGlob(directories[dir_idx])
    /\ out' = out \o <<Notice("processing", directories[dir_idx]),
                       Notice("found", directories[dir_idx])>>
    /\ dir_idx' = dir_idx + 1
    /\ pc' = "files"
    /\ UNCHANGED <<fs, directories, dry_run, migration_count, file_count,
                   errors, exit_status, arg_line, ret_line, fs0,
                   changed_lines, last>>

(***************************************************************************)
(* One iteration of 'for filepath in bst_files'.                           *)
(***************************************************************************)
CallRecord(f, r) ==
    [file |-> f, read_ok |-> r.read_ok, changed |-> r.changed,
     lines |-> r.lines, new_lines |-> r.new_lines, count |-> r.count,
     errors |-> r.errors, file_count_before |-> file_count,
     disk_before |-> fs[f].content]

\* migrate_file's effect on the session
SessionAfter(f, r) ==
    /\ migration_count' = migration_count + r.count
    /\ errors' = errors \o r.errors
    /\ changed_lines' = changed_lines
          + Cardinality({i \in 1..Len(r.lines) : r.new_lines[i] # r.lines[i]})
    /\ last' = CallRecord(f, r)

\* the loop goes on, or migrate_directory returns to main
LoopOn ==
    /\ bst_files' = Tail(bst_files)
    /\ pc' = IF Tail(bst_files) = <<>> THEN "main" ELSE "files"

\* self.migrate_file(filepath) on the file as it is on disk
MigrateOnDisk(f) == MigrateFile(f, fs[f].readable, fs[f].content)

\* changed: counted, announced and, unless --dry-run, written
Migrated(f, r) ==
    /\ r.changed
    /\ SessionAfter(f, r)
    /\ file_count' = IF CountsFile(r.changed, dry_run)
                     THEN file_count + 1 ELSE file_count
    /\ out' = Append(out, Notice("migrated", f))
    /\ fs' = IF Overwrites(r.changed, dry_run)
             THEN [fs EXCEPT ![f].content = r.new_content]
             ELSE fs

FileMigrated ==
    /\ pc = "files"
    /\ Migrated(Head(bst_files), MigrateOnDisk(Head(bst_files)))
    /\ LoopOn
    /\ UNCHANGED <<directories, dry_run, dir_idx, exit_status, arg_line,
                   ret_line, fs0>>

\* not changed: the file is read again, to print the notice
Unchanged(f, r) ==
    /\ ~r.changed
    /\ fs[f].readable
    /\ SessionAfter(f, r)
    /\ out' = IF Contains(fs[f].content, PrintCall)
              THEN Append(out, Notice("skipped", f))
              ELSE out

FileUnchanged ==
    /\ pc = "files"
    /\ Unchanged(Head(bst_files), MigrateOnDisk(Head(bst_files)))
    /\ LoopOn
    /\ UNCHANGED <<fs, directories, dry_run, dir_idx, file_count,
                   exit_status, arg_line, ret_line, fs0>>

\* the read failed in migrate_file, which caught it; the second open, in
\* migrate_directory, is in no try block: the exception leaves main and
\* the interpreter exits with status 1
RereadRaises(f, r) ==
    /\ ~r.changed
    /\ ~fs[f].readable
    /\ SessionAfter(f, r)

FileRereadRaises ==
    /\ pc = "files"
    /\ RereadRaises(Head(bst_files), MigrateOnDisk(Head(bst_files)))
    /\ pc' = "crashed"
    /\ exit_status' = 1
    /\ UNCHANGED <<fs, directories, dry_run, dir_idx, bst_files, file_count,
                   out, arg_line, ret_line, fs0>>

(***************************************************************************)
(* After the loop: print_report, then sys.exit.                            *)
(***************************************************************************)
PrintReport ==
    /\ pc = "main"
    /\ dir_idx > Len(directories)
    /\ out' = Append(out, Report)
    /\ pc' = "exit"
    /\ UNCHANGED <<fs, directories, dry_run, dir_idx, bst_files,
                   migration_count, file_count, errors, exit_status,
                   arg_line, ret_line, fs0, changed_lines, last>>

Exit ==
    /\ pc = "exit"
    /\ exit_status' = ExitCode(errors)
    /\ pc' = "done"
    /\ UNCHANGED <<fs, directories, dry_run, dir_idx, bst_files,
                   migration_count, file_count, errors, out, arg_line,
                   ret_line, fs0, changed_lines, last>>

(***************************************************************************)
(* A direct call migrate_line(arg_line, 1, "f").                           *)
(***************************************************************************)
Returns(r) ==
    /\ ret_line' = r.line
    /\ migration_count' = migration_count + r.count
    /\ errors' = errors \o r.errors
    /\ changed_lines' = IF r.line # arg_line THEN 1 ELSE 0

CallMigrateLine ==
    /\ pc = "call"
    /\ Returns(MigrateLine(arg_line, 1, "f"))
    /\ pc' = "returned"
    /\ UNCHANGED <<fs, directories, dry_run, dir_idx, bst_files, file_count,
                   out, exit_status, arg_line, fs0, last>>

Next ==
    \/ DirectoryMissing
    \/ NoBstFiles
    \/ EnterDirectory
    \/ FileMigrated
    \/ FileUnchanged
    \/ FileRereadRaises
    \/ PrintReport
    \/ Exit
    \/ CallMigrateLine

Spec == Init /\ [][Next]_vars

(***************************************************************************)
(* The run under --dry-run as a function of the directories and of the     *)
(* files at the start: nothing is written, so every file is read as it was. *)
(***************************************************************************)
FreshSession ==
    [migration_count |-> 0, file_count |-> 0, errors |-> <<>>,
     raised |-> FALSE]

\* one iteration of migrate_directory's loop, dry_run = True
PreviewFile(sess, r) ==
    [migration_count |-> sess.migration_count + r.count,
     file_count |-> IF CountsFile(r.changed, TRUE)
                    THEN sess.file_count + 1 ELSE sess.file_count,
     errors |-> sess.errors \o r.errors,
     raised |-> ~r.changed /\ ~r.read_ok]

RECURSIVE PreviewFiles(_, _, _)
PreviewFiles(files, disk, sess) ==
    IF files = <<>> \/ sess.raised THEN sess
    ELSE PreviewFiles(Tail(files), disk,
             PreviewFile(sess, MigrateFile(Head(files),
                                           disk[Head(files)].readable,
                                           disk[Head(files)].content)))

RECURSIVE PreviewDirs(_, _, _)
PreviewDirs(dirs, disk, sess) ==
    IF dirs = <<>> \/ sess.raised THEN sess
    ELSE PreviewDirs(Tail(dirs), disk,
             PreviewFiles(IF Exists(Head(dirs)) THEN RGlob(Head(dirs))
                          ELSE <<>>, disk, sess))

PreviewOutcome(sess) ==
    [files_modified |-> sess.file_count, migrated |-> sess.migration_count,
     warnings |-> sess.errors,
     exit_status |-> IF sess.raised THEN 1 ELSE ExitCode(sess.errors)]

Preview(dirs, disk) == PreviewOutcome(PreviewDirs(dirs, disk, FreshSession))

(***************************************************************************)
(* Vocabulary of the properties.                                           *)
(***************************************************************************)
Ended == pc \in {"done", "crashed"}

\* the process was started through main
InMain == pc \notin {"call", "returned"}

RunOutcome ==
    [files_modified |-> file_count, migrated |-> migration_count,
     warnings |-> errors, exit_status |-> exit_status]

Kinds(errs) == {errs[i].kind : i \in 1..Len(errs)}

Printed(kind) == \E i \in 1..Len(out) : out[i].kind = kind

FilesOf(d) == {RGlob(d)[i] : i \in 1..Len(RGlob(d))}

\* no file is listed under two of the directories
NoOverlap(dirs) ==
    \A i, j \in 1..Len(dirs) :
        i # j => FilesOf(dirs[i]) \cap FilesOf(dirs[j]) = {}

\* a line without its newline, and the newline it had
Chomp(line) ==
    IF line # <<>> /\ line[Len(line)] = NL
    THEN SubSeq(line, 1, Len(line) - 1) ELSE line

Terminator(line) ==
    IF line # <<>> /\ line[Len(line)] = NL THEN <<NL>> ELSE <<>>

\* the line is print([X]), and X
IsBracketCall(line) ==
    /\ Len(Chomp(line)) >= 9
    /\ StartsWithAt(Chomp(line), 1, PrintCall \o <<"[">>)
    /\ StartsWithAt(Chomp(line), Len(Chomp(line)) - 1, <<"]", ")">>)

BracketBody(line) == SubSeq(Chomp(line), 8, Len(Chomp(line)) - 2)

\* brackets and parentheses of x[i..] close what stack has open, in order
RECURSIVE Nested(_, _, _)
Nested(x, i, stack) ==
    IF i > Len(x) THEN stack = <<>>
    ELSE IF x[i] \in {"[", "("} THEN Nested(x, i + 1, <<x[i]>> \o stack)
    ELSE IF x[i] = "]"
         THEN stack # <<>> /\ Head(stack) = "["
                  /\ Nested(x, i + 1, Tail(stack))
    ELSE IF x[i] = ")"
         THEN stack # <<>> /\ Head(stack) = "("
                  /\ Nested(x, i + 1, Tail(stack))
    ELSE Nested(x, i + 1, stack)

WellNested(x) == Nested(x, 1, <<>>)

\* where the first print( of the line starts
FirstPrint(line) ==
    Min({i \in 1..Len(line) : StartsWithAt(line, i, PrintCall)})

\* the ")" that closes the depth-th open "(" before position j; 0 if none
RECURSIVE MatchingClose(_, _, _)
MatchingClose(s, j, depth) ==
    IF j > Len(s) THEN 0
    ELSE IF s[j] = "(" THEN MatchingClose(s, j + 1, depth + 1)
    ELSE IF s[j] = ")"
         THEN IF depth = 1 THEN j ELSE MatchingClose(s, j + 1, depth - 1)
    ELSE MatchingClose(s, j + 1, depth)

\* after position k, ignoring whitespace, comes "--" or the end of the line
FollowedByCommentOrEnd(line, k) ==
    \/ LStrip(SubSeq(line, k + 1, Len(line))) = <<>>
    \/ StartsWithAt(LStrip(SubSeq(line, k + 1, Len(line))), 1, <<"-", "-">>)

HasOperator(x) == \E i \in 1..Len(x) : x[i] \in OpChars

\* rules 1-3 find nothing, and the first print( call of the line holds an
\* operator and is followed by code
TrailingCodeCase(line) ==
    /\ Contains(line, PrintCall)
    /\ \A k \in 1..3 : Search(k, line) = NoMatch
    /\ MatchingClose(line, FirstPrint(line) + 6, 1) # 0
    /\ HasOperator(SubSeq(line, FirstPrint(line) + 6,
                          MatchingClose(line, FirstPrint(line) + 6, 1) - 1))
    /\ ~FollowedByCommentOrEnd(line,
                               MatchingClose(line, FirstPrint(line) + 6, 1))

\* some ")" after the first print( is followed by "--" or the end of the line
LaterParenEndsLine(line) ==
    \E k \in (FirstPrint(line) + 6)..Len(line) :
        line[k] = ")" /\ FollowedByCommentOrEnd(line, k)

(***************************************************************************)
(* Properties.                                                             *)
(***************************************************************************)

\* C1: when main reaches sys.exit the exit status is 1 if and only if the
\* diagnostics list is non-empty, and 0 otherwise, whatever the kinds of the
\* diagnostics; what is only printed (missing root, no matching files,
\* skipped file) does not count.  Until the process ends there is no status.
C1_ExitStatusIffDiagnostics ==
    /\ pc = "done" =>
          /\ exit_status \in {0, 1}
          /\ exit_status = 1 <=> Len(errors) > 0
          /\ (Kinds(errors) = {} /\ (Printed("missing") \/ Printed("nofiles")))
                => exit_status = 0
    /\ ~Ended => exit_status = "none"

\* C1 witness: a finished run whose only diagnostics are soft notices of
\* both kinds, after a missing root was reported
C1_Witness ==
    /\ pc = "done"
    /\ exit_status = 1
    /\ Kinds(errors) = {"could_not", "manual_review"}
    /\ Printed("missing")
    /\ Printed("skipped")

\* C2: a file's content on disk changes only in the step that processes it,
\* with dry_run off and migrate_file reporting it changed, and the new
\* content is the concatenation of the rewritten lines; under dry_run every
\* file keeps its content, and so does every file whose read fails.
C2_OnlyChangedFilesWritten ==
    /\ [](dry_run => fs = fs0)
    /\ [](\A f \in Files : ~fs0[f].readable => fs[f] = fs0[f])
    /\ [][\A f \in Files :
            fs'[f] # fs[f] =>
               /\ ~dry_run
               /\ pc = "files"
               /\ f = Head(bst_files)
               /\ last'.file = f
               /\ last'.read_ok
               /\ last'.changed
               /\ \E i \in 1..Len(last'.lines) :
                     last'.new_lines[i] # last'.lines[i]
               /\ fs'[f].content = Join(last'.new_lines)
               /\ fs'[f].readable = fs[f].readable]_vars

\* C2 witness: a live run has overwritten a file
C2_Witness ==
    /\ ~dry_run
    /\ last.file # "none"
    /\ last.changed
    /\ fs[last.file].content # fs0[last.file].content
    /\ fs[last.file].content = Join(last.new_lines)

\* C3: nothing is raised out of the processing of a file: a failed read
\* leaves exactly one diagnostic naming the path, the file counts as
\* unchanged, and the run goes on to the report and the exit status.
C3_NothingRaised ==
    /\ pc # "crashed"
    /\ (last.file # "none" /\ ~last.read_ok) =>
          /\ last.errors = <<ReadError(last.file)>>
          /\ ~last.changed

\* C4 as claimed: for any list of directories, a live run reports the
\* counts and diagnostics, and exits with the status, of the run under
\* --dry-run over the same files.
C4_SameReportAsDryRun ==
    pc = "done" => RunOutcome = Preview(directories, fs0)

\* C4 amended: a live run reports the counts and diagnostics, and exits with
\* the status, of the run under --dry-run over the same files when no file
\* is listed under two of the directories.
C4_SameReportAsDryRunNoOverlap ==
    (pc = "done" /\ (dry_run \/ NoOverlap(directories)))
        => RunOutcome = Preview(directories, fs0)

\* C4 witness: a live run over two directories with no file in common has
\* rewritten files of both
C4_Witness ==
    /\ pc = "done"
    /\ ~dry_run
    /\ Len(directories) = 2
    /\ NoOverlap(directories)
    /\ file_count = 2
    /\ \A f \in Files : fs[f] # fs0[f]

\* C5: a line without print( is returned as it is, with no diagnostic and
\* no count; a run over files without print( changes no file, counts
\* nothing and records no diagnostic about a line.
C5_NoPrintNoChange ==
    /\ (pc = "returned" /\ ~Contains(arg_line, PrintCall)) =>
          /\ ret_line = arg_line
          /\ errors = <<>>
          /\ migration_count = 0
    /\ (InMain /\ \A f \in Files : ~Contains(fs0[f].content, PrintCall)) =>
          /\ fs = fs0
          /\ file_count = 0
          /\ migration_count = 0
          /\ Kinds(errors) \subseteq {"read_error"}
          /\ ~Printed("migrated")
          /\ ~Printed("skipped")

\* C5 witness: migrate_line has returned a line that holds a parenthesised
\* identifier and no print(
C5_Witness ==
    /\ pc = "returned"
    /\ ~Contains(arg_line, PrintCall)
    /\ Contains(arg_line, <<"(", "x", ")">>)

\* C6: print([X]) with X well nested in brackets and parentheses is
\* returned as [X], counted once, with no diagnostic.
C6_BracketUnwrap ==
    (pc = "returned" /\ IsBracketCall(arg_line)
         /\ WellNested(BracketBody(arg_line)))
        => /\ ret_line = <<"[">> \o BracketBody(arg_line) \o <<"]">>
                             \o Terminator(arg_line)
           /\ migration_count = 1
           /\ errors = <<>>

\* C7 as claimed: print(foo.bar()) is returned as it is, with exactly one
\* 'could not auto-migrate' diagnostic and no count.
C7_MethodCallLeftAlone ==
    (pc = "returned" /\ Chomp(arg_line) = LMethod)
        => /\ ret_line = arg_line
           /\ errors = <<CouldNot("f", 1, arg_line)>>
           /\ migration_count = 0

\* C7 amended: print(foo.bar()) is rewritten by rule 4 to [foo.bar()], its
\* newline kept, counted once, with exactly one 'manual review' diagnostic
\* and no 'could not auto-migrate' diagnostic.
C7_MethodCallRewritten ==
    (pc = "returned" /\ Chomp(arg_line) = LMethod)
        => /\ ret_line = <<"[", "f", "o", "o", ".", "b", "a", "r", "(", ")",
                           "]">> \o Terminator(arg_line)
           /\ errors = <<ManualReview("f", 1, arg_line)>>
           /\ migration_count = 1

\* C7 witness: migrate_line has returned from print(foo.bar()) and a newline
C7_Witness ==
    /\ pc = "returned"
    /\ arg_line = LMethod \o <<NL>>
    /\ ret_line # arg_line

\* C8: for the latest call of migrate_file, the changed flag is true if and
\* only if a returned line differs from its input line, there are as many
\* returned lines as lines read, the count grew by at most the number of
\* lines, and file_count grew by one if the flag is true and not otherwise.
C8_ChangedFlag ==
    last.file # "none" =>
       /\ last.changed <=>
             \E i \in 1..Len(last.lines) : last.new_lines[i] # last.lines[i]
       /\ Len(last.new_lines) = Len(last.lines)
       /\ last.read_ok => last.lines = ReadLines(last.disk_before)
       /\ ~last.read_ok => ~last.changed
       /\ last.count <= Len(last.lines)
       /\ file_count = last.file_count_before + (IF last.changed THEN 1 ELSE 0)

\* C8 witness: a file of two lines of which the first was rewritten and the
\* second was not
C8_Witness ==
    /\ last.file # "none"
    /\ last.changed
    /\ Len(last.lines) = 2
    /\ last.new_lines[1] # last.lines[1]
    /\ last.new_lines[2] = last.lines[2]
    /\ last.count = 1

\* C9 as claimed: when rules 1-3 find nothing and the line's first print(
\* call holds an operator and is followed by code, the line is returned as
\* it is with a 'could not auto-migrate' diagnostic, whatever that code is
\* (here: even when the brackets and parentheses of the line are balanced).
C9_TrailingCodeNeverRewritten ==
    (pc = "returned" /\ TrailingCodeCase(arg_line)
         /\ WellNested(Chomp(arg_line)))
        => /\ ret_line = arg_line
           /\ errors = <<CouldNot("f", 1, arg_line)>>

\* C9 amended: in that case the line is returned as it is, uncounted, with
\* a 'could not auto-migrate' diagnostic exactly when no ")" after the
\* print( is followed, ignoring whitespace, by "--" or the end of the line;
\* when one is, rule 4 rewrites the line, counts it and asks for a review.
C9_TrailingCodeUnlessLaterParen ==
    (pc = "returned" /\ TrailingCodeCase(arg_line))
        => IF LaterParenEndsLine(arg_line)
           THEN /\ ret_line # arg_line
                /\ migration_count = 1
                /\ errors = <<ManualReview("f", 1, arg_line)>>
           ELSE /\ ret_line = arg_line
                /\ migration_count = 0
                /\ errors = <<CouldNot("f", 1, arg_line)>>

\* C9 witness: migrate_line has returned such a line as it was
C9_Witness ==
    /\ pc = "returned"
    /\ TrailingCodeCase(arg_line)
    /\ ~LaterParenEndsLine(arg_line)
    /\ ret_line = arg_line

\* C10: a call of migrate_line counts one if the returned line differs and
\* nothing otherwise, and appends at most one diagnostic: 'manual review'
\* exactly when rule 4 rewrote the line, 'could not auto-migrate' exactly
\* when the line is returned as it is and holds print(, none when rules 1-3
\* rewrote it.  So migration_count is the number of changed lines, and
\* file_count is at most migration_count.
C10_LineAccounting ==
    /\ pc = "returned" =>
          /\ migration_count = (IF ret_line # arg_line THEN 1 ELSE 0)
          /\ Len(errors) <= 1
          /\ "manual_review" \in Kinds(errors) <=>
                (ret_line # arg_line
                    /\ \A k \in 1..3 : Search(k, arg_line) = NoMatch)
          /\ "could_not" \in Kinds(errors) <=>
                (ret_line = arg_line /\ Contains(arg_line, PrintCall))
          /\ (ret_line # arg_line
                 /\ \E k \in 1..3 : Search(k, arg_line) # NoMatch)
                => errors = <<>>
    /\ migration_count = changed_lines
    /\ file_count <= migration_count

\* C10 witness: rule 4 has rewritten the line of a call
C10_Witness ==
    /\ pc = "returned"
    /\ ret_line # arg_line
    /\ Kinds(errors) = {"manual_review"}
    /\ migration_count = 1

=============================================================================
